---- MODULE Spec2Model ----
(***************************************************************************)
(* Efs2: the Efs2file parser (package parser) and the multi-host runner    *)
(* (package app, func Run).                                                *)
(*                                                                         *)
(* Text is modelled as sequences of one-character strings, so that         *)
(* strings.TrimSpace, strings.Split, strings.Join and the four regular     *)
(* expressions of Parse are computed character by character.               *)
(***************************************************************************)
EXTENDS Integers, Sequences, FiniteSets, TLC

(***************************************************************************)
(* Bounds of the model.                                                    *)
(***************************************************************************)
\* longest Efs2file handed to Parse on its own
MaxLines == 3
\* longest host list handed to Run
MaxHosts == 2

(***************************************************************************)
(* Strings.                                                                *)
(***************************************************************************)
Digits == {"0", "1", "2", "3", "4", "5", "6", "7", "8", "9"}

\* unicode.IsSpace, over the characters the inputs use
IsSpace(c) == c \in {" ", "\t"}

\* s[from:] of Go
Drop(s, n) == IF n >= Len(s) THEN <<>> ELSE SubSeq(s, n + 1, Len(s))

\* strings.HasPrefix
HasPrefix(s, p) == Len(s) >= Len(p) /\ SubSeq(s, 1, Len(p)) = p

RECURSIVE TrimLeft(_)
TrimLeft(s) == IF s # <<>> /\ IsSpace(Head(s)) THEN TrimLeft(Tail(s)) ELSE s

RECURSIVE TrimRight(_)
TrimRight(s) ==
    IF s # <<>> /\ IsSpace(s[Len(s)]) THEN TrimRight(SubSeq(s, 1, Len(s) - 1)) ELSE s

\* strings.TrimSpace
TrimSpace(s) == TrimRight(TrimLeft(s))

\* strings.Split(s, " "): the fields between single spaces; one empty field
\* for the empty string, an empty field between two adjacent spaces
RECURSIVE SplitFrom(_, _)
SplitFrom(s, cur) ==
    IF s = <<>> THEN <<cur>>
    ELSE IF Head(s) = " " THEN <<cur>> \o SplitFrom(Tail(s), <<>>)
    ELSE SplitFrom(Tail(s), Append(cur, Head(s)))

Split(s) == SplitFrom(s, <<>>)

\* strings.Join(fields, " ")
RECURSIVE Join(_)
Join(fs) ==
    IF fs = <<>> THEN <<>>
    ELSE IF Len(fs) = 1 THEN fs[1]
    ELSE fs[1] \o <<" ">> \o Join(Tail(fs))

AllDigits(s) == \A k \in 1..Len(s) : s[k] \in Digits

(***************************************************************************)
(* The regular expressions of Parse.                                       *)
(***************************************************************************)
\* ^RUN .*$
isRun(l) == HasPrefix(l, <<"R", "U", "N", " ">>)

\* ^RUN (CMD|SCRIPT) .*$
isOldRun(l) ==
    \/ HasPrefix(l, <<"R", "U", "N", " ", "C", "M", "D", " ">>)
    \/ HasPrefix(l, <<"R", "U", "N", " ", "S", "C", "R", "I", "P", "T", " ">>)

\* ^PUT .* \d{3,4}$ : "PUT ", any text, one space, then three or four digits
\* that end the line
isPut(l) ==
    /\ HasPrefix(l, <<"P", "U", "T", " ">>)
    /\ \E n \in {3, 4} :
          /\ Len(l) >= 4 + 1 + n
          /\ l[Len(l) - n] = " "
          /\ AllDigits(SubSeq(l, Len(l) - n + 1, Len(l)))

\* ^#.*
isComment(l) == l # <<>> /\ Head(l) = "#"

(***************************************************************************)
(* strconv.ParseUint(s, 8, 32) for the mode field of a PUT line.           *)
(***************************************************************************)
OctalDigits == {"0", "1", "2", "3", "4", "5", "6", "7"}

DigitVal(c) ==
    CASE c = "0" -> 0 [] c = "1" -> 1 [] c = "2" -> 2 [] c = "3" -> 3
      [] c = "4" -> 4 [] c = "5" -> 5 [] c = "6" -> 6 [] c = "7" -> 7
      [] c = "8" -> 8 [] c = "9" -> 9

\* err == nil of ParseUint: a non-empty string of octal digits (the fields of
\* the model are short enough that the 32-bit range is never exceeded)
ParseUintOk(s) == s # <<>> /\ \A k \in 1..Len(s) : s[k] \in OctalDigits

RECURSIVE ParseUint(_)
ParseUint(s) ==
    IF s = <<>> THEN 0
    ELSE 8 * ParseUint(SubSeq(s, 1, Len(s) - 1)) + DigitVal(s[Len(s)])

(***************************************************************************)
(* TmpFn: a linear congruential step on a uint32 seed, then nine decimal   *)
(* digits.  A uint32 is held as two 16-bit halves [hi, lo] so that the     *)
(* arithmetic modulo 2^32 never leaves the signed 32-bit range.            *)
(***************************************************************************)
Half == 2 ^ 16

U32(hi, lo) == [hi |-> hi % Half, lo |-> lo % Half]

\* r * 1664525 (mod 2^32); 1664525 = 25 * 65536 + 26125
MulLCG(r) ==
    LET p0 == r.lo * 26125
    IN  U32((p0 \div Half) + r.hi * 26125 + r.lo * 25, p0)

\* r + 1013904223 (mod 2^32); 1013904223 = 15470 * 65536 + 62303
AddLCG(r) ==
    LET s0 == r.lo + 62303
    IN  U32((s0 \div Half) + r.hi + 15470, s0)

\* r % 1e9, r = hi * 65536 + lo
Mod1e9(r) == ((((r.hi * 32768) % 1000000000) * 2) + r.lo) % 1000000000

DigitChar(d) ==
    CASE d = 0 -> "0" [] d = 1 -> "1" [] d = 2 -> "2" [] d = 3 -> "3"
      [] d = 4 -> "4" [] d = 5 -> "5" [] d = 6 -> "6" [] d = 7 -> "7"
      [] d = 8 -> "8" [] d = 9 -> "9"

\* strconv.Itoa(int(1e9 + n))[1:] for 0 <= n < 1e9: n in nine digits,
\* leading zeros kept
Itoa9(n) == [k \in 1..9 |-> DigitChar((n \div (10 ^ (9 - k))) % 10)]

\* TmpFn, from the seed uint32(time.Now().UnixNano() + int64(os.Getpid()))
TmpFn(seed) == Itoa9(Mod1e9(AddLCG(MulLCG(seed))))

(***************************************************************************)
(* ssh.Task and the errors of Parse.                                       *)
(***************************************************************************)
\* ssh.Task{Task: l, Command: ssh.Command{}, File: ssh.File{}}
NewTask(l) ==
    [Task |-> l, Cmd |-> <<>>, Source |-> <<>>, Destination |-> <<>>, Mode |-> 0]

NoErr == [kind |-> "nil", line |-> <<>>, lc |-> 0, tok |-> <<>>]

\* "could not read Efs2file - %s"
ErrOpen == [kind |-> "open", line |-> <<>>, lc |-> 0, tok |-> <<>>]

\* "Unable to parse Efs2file line %s", l
ErrLine(l) == [kind |-> "line", line |-> l, lc |-> 0, tok |-> <<>>]

\* "PUT definition on line %d is incorrect", lc
ErrPutFields(n) == [kind |-> "putfields", line |-> <<>>, lc |-> n, tok |-> <<>>]

\* "could not convert mode value to integer on line %d - %s", lc, p[3]
ErrMode(n, tok) == [kind |-> "mode", line |-> <<>>, lc |-> n, tok |-> tok]

\* "error parsing Efs2file - %s"
ErrScan == [kind |-> "scan", line |-> <<>>, lc |-> 0, tok |-> <<>>]

\* os.FileMode(int(0700))
ScriptMode == 448

TmpDir == <<"/", "t", "m", "p", "/">>

(***************************************************************************)
(* The body of the scan loop of Parse for one line: the tasks it appends   *)
(* and the error it returns with, if any.                                  *)
(***************************************************************************)
\* strings.Fields in place of the fields between single spaces
RECURSIVE NonEmpty(_)
NonEmpty(fs) ==
    IF fs = <<>> THEN <<>>
    ELSE IF Head(fs) = <<>> THEN NonEmpty(Tail(fs))
    ELSE <<Head(fs)>> \o NonEmpty(Tail(fs))

\* the command of a current RUN line with its doubled spaces dropped
RunTask_Collapses(t, l, c) ==
    IF isRun(l) /\ ~isOldRun(l) THEN [t EXCEPT !.Cmd = Join(NonEmpty(Drop(c, 1)))] ELSE t

\* current RUN syntax
RunTask(t, l, c) ==
    IF isRun(l) /\ ~isOldRun(l) THEN [t EXCEPT !.Cmd = Join(Drop(c, 1))] ELSE t

\* older RUN syntax
OldRunTask(t, l, c, seed) ==
    IF ~isOldRun(l) THEN t
    ELSE IF c[2] = <<"C", "M", "D">> THEN [t EXCEPT !.Cmd = Join(Drop(c, 2))]
    ELSE IF c[2] = <<"S", "C", "R", "I", "P", "T">> THEN
        LET dest == TmpDir \o TmpFn(seed)
        IN  [t EXCEPT !.Cmd = dest \o <<";", " ", "r", "m", " ">> \o dest,
                      !.Source = c[3],
                      !.Destination = dest,
                      !.Mode = ScriptMode]
    ELSE t

\* the mode of a PUT line read in base 10
RECURSIVE ParseDecimal(_)
ParseDecimal(s) ==
    IF s = <<>> THEN 0
    ELSE 10 * ParseDecimal(SubSeq(s, 1, Len(s) - 1)) + DigitVal(s[Len(s)])

PutTask_DecimalMode(t, p) ==
    [t EXCEPT !.Source = p[2], !.Destination = p[3], !.Mode = ParseDecimal(p[4])]

PutTask(t, p) ==
    [t EXCEPT !.Source = p[2], !.Destination = p[3], !.Mode = ParseUint(p[4])]

\* a scan loop that passes over blank lines
ParseLine_SkipsBlank(raw, n, seed) ==
    LET l  == TrimSpace(raw)
        c  == Split(l)
        t0 == NewTask(l)
        t1 == RunTask(t0, l, c)
        a1 == IF isRun(l) /\ ~isOldRun(l) THEN <<t1>> ELSE <<>>
        t2 == OldRunTask(t1, l, c, seed)
        a2 == IF isOldRun(l) THEN Append(a1, t2) ELSE a1
        p  == Split(l)
    IN  IF l = <<>> THEN [err |-> NoErr, add |-> <<>>]
        ELSE IF ~isRun(l) /\ ~isOldRun(l) /\ ~isPut(l) /\ ~isComment(l)
        THEN [err |-> ErrLine(l), add |-> <<>>]
        ELSE IF ~isPut(l) THEN [err |-> NoErr, add |-> a2]
        ELSE IF Len(p) # 4 THEN [err |-> ErrPutFields(n), add |-> a2]
        ELSE IF ~ParseUintOk(p[4]) THEN [err |-> ErrMode(n, p[4]), add |-> a2]
        ELSE [err |-> NoErr, add |-> Append(a2, PutTask(t2, p))]

\* the task of a PUT line appended before its fields and its mode are checked
ParseLine_AppendsFirst(raw, n, seed) ==
    LET l  == TrimSpace(raw)
        c  == Split(l)
        t0 == NewTask(l)
        t1 == RunTask(t0, l, c)
        a1 == IF isRun(l) /\ ~isOldRun(l) THEN <<t1>> ELSE <<>>
        t2 == OldRunTask(t1, l, c, seed)
        a2 == IF isOldRun(l) THEN Append(a1, t2) ELSE a1
        p  == Split(l)
    IN  IF ~isRun(l) /\ ~isOldRun(l) /\ ~isPut(l) /\ ~isComment(l)
        THEN [err |-> ErrLine(l), add |-> <<>>]
        ELSE IF ~isPut(l) THEN [err |-> NoErr, add |-> a2]
        ELSE IF Len(p) # 4 THEN [err |-> ErrPutFields(n), add |-> Append(a2, t2)]
        ELSE IF ~ParseUintOk(p[4]) THEN [err |-> ErrMode(n, p[4]), add |-> Append(a2, PutTask(t2, p))]
        ELSE [err |-> NoErr, add |-> Append(a2, PutTask(t2, p))]

ParseLine(raw, n, seed) ==
    LET l  == TrimSpace(raw)
        c  == Split(l)
        t0 == NewTask(l)
        t1 == RunTask(t0, l, c)
        a1 == IF isRun(l) /\ ~isOldRun(l) THEN <<t1>> ELSE <<>>
        t2 == OldRunTask(t1, l, c, seed)
        a2 == IF isOldRun(l) THEN Append(a1, t2) ELSE a1
        p  == Split(l)
    IN  IF ~isRun(l) /\ ~isOldRun(l) /\ ~isPut(l) /\ ~isComment(l)
        THEN [err |-> ErrLine(l), add |-> <<>>]
        ELSE IF ~isPut(l) THEN [err |-> NoErr, add |-> a2]
        ELSE IF Len(p) # 4 THEN [err |-> ErrPutFields(n), add |-> a2]
        ELSE IF ~ParseUintOk(p[4]) THEN [err |-> ErrMode(n, p[4]), add |-> a2]
        ELSE [err |-> NoErr, add |-> Append(a2, PutTask(t2, p))]

(***************************************************************************)
(* fixUpHosts.                                                             *)
(***************************************************************************)
\* hasPort: .*:\d* matched anywhere in the string
hasPort(hs) == \E k \in 1..Len(hs) : hs[k] = ":"

fixUpHost(hs, port) ==
    IF hasPort(hs) THEN hs
    ELSE IF port = <<>> THEN hs \o <<":", "2", "2">>
    ELSE hs \o <<":">> \o port

fixUpHosts(hs, port) == [k \in 1..Len(hs) |-> fixUpHost(hs[k], port)]

(***************************************************************************)
(* Inputs.                                                                 *)
(***************************************************************************)
\* a comment
LComment == <<"#", " ", "c">>

\* current RUN
LRun == <<"R", "U", "N", " ", "e">>

\* current RUN, leading, trailing and doubled spaces
LRunSpaces == <<" ", "R", "U", "N", " ", "e", " ", " ", "f", " ">>

\* current RUN, a tab inside the command
LRunTab == <<"R", "U", "N", " ", "e", "\t", "f">>

\* legacy RUN CMD
LRunCmd == <<"R", "U", "N", " ", "C", "M", "D", " ", "e">>

\* legacy RUN SCRIPT
LRunScript == <<"R", "U", "N", " ", "S", "C", "R", "I", "P", "T", " ", "s">>

\* RUN SCRIPT, two spaces before the path
LRunScript2 == <<"R", "U", "N", " ", "S", "C", "R", "I", "P", "T", " ", " ", "s">>

\* PUT, three-digit mode
LPut == <<"P", "U", "T", " ", "a", " ", "b", " ", "6", "4", "4">>

\* PUT, four-digit mode, trailing space
LPut4 == <<"P", "U", "T", " ", "a", " ", "b", " ", "0", "7", "5", "5", " ">>

\* PUT, digits that are not octal
LPutNonOctal == <<"P", "U", "T", " ", "a", " ", "b", " ", "6", "8", "9">>

\* PUT, three fields
LPut3 == <<"P", "U", "T", " ", "a", " ", "6", "4", "4">>

\* PUT, five fields (a doubled space)
LPut5 == <<"P", "U", "T", " ", "a", " ", " ", "b", " ", "6", "4", "4">>

\* PUT, four fields of which the source is empty (two spaces after PUT)
LPutNoSrc == <<"P", "U", "T", " ", " ", "b", " ", "6", "4", "4">>

\* PUT, two-digit mode
LPutShort == <<"P", "U", "T", " ", "a", " ", "b", " ", "6", "4">>

\* an empty line
LBlank == <<>>

\* a whitespace-only line
LSpaces == <<" ", "\t">>

\* no instruction
LOther == <<"G", "E", "T", " ", "a">>

Lines ==
    {LComment, LRun, LRunSpaces, LRunTab, LRunCmd, LRunScript, LRunScript2,
     LPut, LPut4, LPutNonOctal, LPut3, LPut5, LPutNoSrc, LPutShort,
     LBlank, LSpaces, LOther}

\* the Efs2files handed to Parse on its own
Files == UNION {[1..n -> Lines] : n \in 0..MaxLines}

\* the Efs2files handed to Run: no task, a command, an upload followed by a
\* script (upload and command), a comment and a command, and two files that
\* stop at a malformed line after a first task
RunFiles ==
    {<<>>, <<LRun>>, <<LPut, LRunScript>>, <<LComment, LRunCmd>>,
     <<LRun, LOther>>, <<LRunScript, LPut5>>}

\* seeds of TmpFn; the first and the last give the same name
Seeds == {U32(0, 0), U32(0, 1), U32(54157, 29184)}

\* the k-th host of the command line: every second one carries a port
HostAt(k) ==
    IF k % 2 = 1 THEN <<"h", DigitChar(k)>> ELSE <<"h", DigitChar(k), ":", "7">>

HostLists == {[k \in 1..n |-> HostAt(k)] : n \in 0..MaxHosts}

Workers == 1..MaxHosts

\* host arguments: names, names with a port, an IPv6 literal without a port
HostArgs ==
    {<<"a">>, <<"a", ":", "7">>, <<"b">>, <<"b", ":", "2", "2">>,
     <<"[", ":", ":", "1", "]">>}

HostArgLists == UNION {[1..n -> HostArgs] : n \in 0..MaxHosts}

\* cfg.Port: not given, or given
PortArgs == {<<>>, <<"8">>}

(***************************************************************************)
(* State.                                                                  *)
(***************************************************************************)
VARIABLES
    Parallel,     \* cfg.Parallel
    DryRun,       \* cfg.DryRun
    Quiet,        \* cfg.Quiet
    Port,         \* cfg.Port
    Hosts,        \* cfg.Hosts
    input,        \* the lines of the Efs2file, as the scanner yields them
    seeds,        \* the values uint32(time.Now().UnixNano() + int64(os.Getpid()))
                  \* can take while Parse runs
    perIteration, \* the build gives each iteration of the range loop its own h
                  \* (Go 1.22 and later); otherwise all iterations share one h
    pc,           \* where Run (or Parse) stands
    lc,           \* Parse: lines scanned
    tasks,        \* Parse: tasks; then the task list of Run
    perr,         \* Parse: the error returned
    i,            \* Run: index of the host loop
    h,            \* Run: the loop variable h
    wg,           \* Run: the counter of the sync.WaitGroup
    errCount,     \* Run: errCount
    result,       \* what Run returned
    wpc,          \* per worker: where the goroutine stands
    host,         \* per worker: c.Host
    k,            \* per worker: index into tasks
    tmp,          \* per worker: errCount as read for errCount + 1
    ops,          \* per worker: the Transport calls made, each with its outcome
    shown         \* per worker: the tasks announced ("Executing Task")

cfgVars == <<Parallel, DryRun, Quiet, Port, input, seeds, perIteration>>
parseVars == <<lc, tasks, perr>>
mainVars == <<Hosts, i, h, wg, errCount, result>>
workerVars == <<wpc, host, k, tmp, ops, shown>>
vars == <<cfgVars, parseVars, mainVars, workerVars, pc>>

NoResult == [kind |-> "none", count |-> 0]

InitRest ==
    /\ lc = 0
    /\ tasks = <<>>
    /\ perr = NoErr
    /\ i = 0
    /\ h = <<>>
    /\ wg = 0
    /\ errCount = 0
    /\ result = NoResult
    /\ wpc = [w \in Workers |-> "idle"]
    /\ host = [w \in Workers |-> <<>>]
    /\ k = [w \in Workers |-> 0]
    /\ tmp = [w \in Workers |-> 0]
    /\ ops = [w \in Workers |-> <<>>]
    /\ shown = [w \in Workers |-> <<>>]

\* Run is called with a configuration
Init ==
    /\ Parallel \in BOOLEAN
    /\ DryRun \in BOOLEAN
    /\ Quiet \in BOOLEAN
    /\ Port = <<"2", "2">>
    /\ Hosts \in HostLists
    /\ input \in RunFiles
    /\ seeds = {U32(0, 1)}
    /\ perIteration \in BOOLEAN
    /\ pc = "start"
    /\ InitRest

\* Parse is called on its own
InitParse ==
    /\ Parallel = FALSE
    /\ DryRun = FALSE
    /\ Quiet = FALSE
    /\ Port = <<>>
    /\ Hosts = <<>>
    /\ input \in Files
    /\ seeds = Seeds
    /\ perIteration = FALSE
    /\ pc = "open"
    /\ InitRest

\* fixUpHosts is called on its own
InitHosts ==
    /\ Parallel = FALSE
    /\ DryRun = FALSE
    /\ Quiet = FALSE
    /\ Port \in PortArgs
    /\ Hosts \in HostArgLists
    /\ input = <<>>
    /\ seeds = {}
    /\ perIteration = FALSE
    /\ pc = "fix"
    /\ InitRest

(***************************************************************************)
(* Parse.                                                                  *)
(***************************************************************************)
\* os.Open (or the scanner on stdin)
ParseOpen ==
    /\ pc = "open"
    /\ \E ok \in BOOLEAN :
          IF ok THEN /\ pc' = "scan"
                     /\ UNCHANGED parseVars
          ELSE /\ pc' = "parsed"
               /\ perr' = ErrOpen
               /\ UNCHANGED <<lc, tasks>>
    /\ UNCHANGED <<cfgVars, mainVars, workerVars>>

\* one iteration of "for s.Scan()"
ParseScan ==
    /\ pc = "scan"
    /\ lc < Len(input)
    /\ \E seed \in seeds :
          LET r == ParseLine(input[lc + 1], lc + 1, seed)
          IN  /\ lc' = lc + 1
              /\ tasks' = tasks \o r.add
              /\ perr' = r.err
              /\ pc' = IF r.err = NoErr THEN "scan" ELSE "parsed"
    /\ UNCHANGED <<cfgVars, mainVars, workerVars>>

\* s.Scan() returns false at the end of the input
ParseEnd ==
    /\ pc = "scan"
    /\ lc = Len(input)
    /\ pc' = "parsed"
    /\ UNCHANGED <<cfgVars, parseVars, mainVars, workerVars>>

\* s.Scan() returns false on a read error
ParseScanErr ==
    /\ pc = "scan"
    /\ perr' = ErrScan
    /\ pc' = "parsed"
    /\ UNCHANGED <<cfgVars, lc, tasks, mainVars, workerVars>>

NextParse == ParseOpen \/ ParseScan \/ ParseEnd \/ ParseScanErr

SpecParse == InitParse /\ [][NextParse]_vars

\* cfg.Hosts = fixUpHosts(cfg.Hosts, cfg.Port), on the arguments and then
\* on its own result
FixUpHosts ==
    /\ pc \in {"fix", "fixed"}
    /\ Hosts' = fixUpHosts(Hosts, Port)
    /\ pc' = IF pc = "fix" THEN "fixed" ELSE "refixed"
    /\ UNCHANGED <<cfgVars, parseVars, i, h, wg, errCount, result, workerVars>>

NextHosts == FixUpHosts

SpecHosts == InitHosts /\ [][NextHosts]_vars

(***************************************************************************)
(* Run: the main goroutine.                                                *)
(***************************************************************************)
Returned(kind, n) == [kind |-> kind, count |-> n]

\* the password or the key file is taken; reading the key may fail
Credentials ==
    /\ pc = "start"
    /\ \E ok \in BOOLEAN :
          IF ok THEN /\ pc' = "open"
                     /\ UNCHANGED result
          ELSE /\ pc' = "done"
               /\ result' = Returned("key", 0)
    /\ UNCHANGED <<cfgVars, parseVars, Hosts, i, h, wg, errCount, workerVars>>

\* the error of Parse not looked at
AfterParse_IgnoresErr ==
    /\ pc = "parsed"
    /\ pc' = "loop"
    /\ Hosts' = fixUpHosts(Hosts, Port)
    /\ i' = 1
    /\ UNCHANGED <<cfgVars, parseVars, h, wg, errCount, result, workerVars>>

\* tasks, err := parser.Parse(...); return on err; cfg.Hosts = fixUpHosts(...)
AfterParse ==
    /\ pc = "parsed"
    /\ IF perr # NoErr
       THEN /\ pc' = "done"
            /\ result' = Returned("parse", 0)
            /\ UNCHANGED <<Hosts, i>>
       ELSE /\ pc' = "loop"
            /\ Hosts' = fixUpHosts(Hosts, Port)
            /\ i' = 1
            /\ UNCHANGED result
    /\ UNCHANGED <<cfgVars, parseVars, h, wg, errCount, workerVars>>

\* for _, h := range cfg.Hosts { wg.Add(1); go func() {...}() ...
Spawn ==
    /\ pc = "loop"
    /\ i <= Len(Hosts)
    /\ h' = Hosts[i]
    /\ wg' = wg + 1
    /\ wpc' = [wpc EXCEPT ![i] = "dial"]
    /\ IF Parallel THEN /\ i' = i + 1
                        /\ pc' = "loop"
       ELSE /\ pc' = "wait_seq"
            /\ UNCHANGED i
    /\ UNCHANGED <<cfgVars, parseVars, Hosts, errCount, result,
                   host, k, tmp, ops, shown>>

\* sequential mode that goes to the next host without waiting
SeqWait_NoWait ==
    /\ pc = "wait_seq"
    /\ i' = i + 1
    /\ pc' = "loop"
    /\ UNCHANGED <<cfgVars, parseVars, Hosts, h, wg, errCount, result, workerVars>>

\* if !cfg.Parallel { wg.Wait() }
SeqWait ==
    /\ pc = "wait_seq"
    /\ wg = 0
    /\ i' = i + 1
    /\ pc' = "loop"
    /\ UNCHANGED <<cfgVars, parseVars, Hosts, h, wg, errCount, result, workerVars>>

\* no wait after the loop
FinalWait_NoWait ==
    /\ pc = "loop"
    /\ i > Len(Hosts)
    /\ pc' = "check"
    /\ UNCHANGED <<cfgVars, parseVars, mainVars, workerVars>>

\* wg.Wait() after the loop
FinalWait ==
    /\ pc = "loop"
    /\ i > Len(Hosts)
    /\ wg = 0
    /\ pc' = "check"
    /\ UNCHANGED <<cfgVars, parseVars, mainVars, workerVars>>

\* a single failure let through
Return_AboveOne ==
    /\ pc = "check"
    /\ result' = IF errCount > 1 THEN Returned("exec", errCount) ELSE Returned("nil", 0)
    /\ pc' = "done"
    /\ UNCHANGED <<cfgVars, parseVars, Hosts, i, h, wg, errCount, workerVars>>

\* if errCount > 0 { return fmt.Errorf(...) }; return nil
Return ==
    /\ pc = "check"
    /\ result' = IF errCount > 0 THEN Returned("exec", errCount) ELSE Returned("nil", 0)
    /\ pc' = "done"
    /\ UNCHANGED <<cfgVars, parseVars, Hosts, i, h, wg, errCount, workerVars>>

(***************************************************************************)
(* Run: the goroutine started for the i-th host.                           *)
(***************************************************************************)
Op(name, hs, t, ok) == [op |-> name, host |-> hs, task |-> t, ok |-> ok]

\* the h a goroutine reads
LoopVar(w) == IF perIteration THEN Hosts[w] ELSE h

\* a dial failure that is not counted and does not end the goroutine
AfterDial_GoesOn(ok) == "task"

\* where the goroutine goes after ssh.Dial(c) returned
AfterDial(ok) == IF ok THEN "task" ELSE "inc_read"

\* c.Host = h; sh, err := ssh.Dial(c)
Dial(w) ==
    /\ wpc[w] = "dial"
    /\ host' = [host EXCEPT ![w] = LoopVar(w)]
    /\ \E ok \in BOOLEAN :
          LET to == AfterDial(ok)
          IN  /\ ops' = [ops EXCEPT ![w] = Append(@, Op("dial", LoopVar(w), 0, ok))]
              /\ wpc' = [wpc EXCEPT ![w] = to]
              /\ k' = IF to = "task" THEN [k EXCEPT ![w] = 1] ELSE k
    /\ UNCHANGED <<cfgVars, parseVars, mainVars, tmp, shown, pc>>

\* the command of a task tried before its upload
AfterAnnounce_CmdFirst(t) ==
    IF DryRun THEN "task"
    ELSE IF t.Cmd # <<>> THEN "run"
    ELSE IF t.Source # <<>> THEN "put"
    ELSE "task"

\* the dry-run test left out
AfterAnnounce_NoDryRun(t) ==
    IF t.Source # <<>> THEN "put"
    ELSE IF t.Cmd # <<>> THEN "run"
    ELSE "task"

\* where the body of "for i, t := range tasks" goes after announcing task t
AfterAnnounce(t) ==
    IF DryRun THEN "task"
    ELSE IF t.Source # <<>> THEN "put"
    ELSE IF t.Cmd # <<>> THEN "run"
    ELSE "task"

\* the head of "for i, t := range tasks": the announcement, the dry-run
\* test, the choice of the first Transport call of the task
TaskLoop(w) ==
    /\ wpc[w] = "task"
    /\ IF k[w] > Len(tasks)
       THEN /\ wpc' = [wpc EXCEPT ![w] = "exit"]
            /\ UNCHANGED <<k, shown>>
       ELSE LET to == AfterAnnounce(tasks[k[w]])
            IN  /\ shown' = IF Quiet THEN shown
                            ELSE [shown EXCEPT ![w] = Append(@, k[w])]
                /\ wpc' = [wpc EXCEPT ![w] = to]
                /\ k' = IF to = "task" THEN [k EXCEPT ![w] = @ + 1] ELSE k
    /\ UNCHANGED <<cfgVars, parseVars, mainVars, host, tmp, ops, pc>>

\* a failed upload that does not end the goroutine
AfterPut_GoesOn(t, ok) == IF t.Cmd # <<>> THEN "run" ELSE "task"

\* where the goroutine goes after sh.Put(t.File) returned
AfterPut(t, ok) ==
    IF ~ok THEN "inc_read"
    ELSE IF t.Cmd # <<>> THEN "run"
    ELSE "task"

\* err := sh.Put(t.File)
Put(w) ==
    /\ wpc[w] = "put"
    /\ \E ok \in BOOLEAN :
          LET to == AfterPut(tasks[k[w]], ok)
          IN  /\ ops' = [ops EXCEPT ![w] = Append(@, Op("put", host[w], k[w], ok))]
              /\ wpc' = [wpc EXCEPT ![w] = to]
              /\ k' = IF to = "task" THEN [k EXCEPT ![w] = @ + 1] ELSE k
    /\ UNCHANGED <<cfgVars, parseVars, mainVars, host, tmp, shown, pc>>

\* where the goroutine goes after sh.Run(t.Command) returned
AfterRun(ok) == IF ok THEN "task" ELSE "inc_read"

\* r, err := sh.Run(t.Command)
RunCmd(w) ==
    /\ wpc[w] = "run"
    /\ \E ok \in BOOLEAN :
          LET to == AfterRun(ok)
          IN  /\ ops' = [ops EXCEPT ![w] = Append(@, Op("run", host[w], k[w], ok))]
              /\ wpc' = [wpc EXCEPT ![w] = to]
              /\ k' = IF to = "task" THEN [k EXCEPT ![w] = @ + 1] ELSE k
    /\ UNCHANGED <<cfgVars, parseVars, mainVars, host, tmp, shown, pc>>

\* errCount = errCount + 1, the read of errCount
IncRead(w) ==
    /\ wpc[w] = "inc_read"
    /\ tmp' = [tmp EXCEPT ![w] = errCount]
    /\ wpc' = [wpc EXCEPT ![w] = "inc_write"]
    /\ UNCHANGED <<cfgVars, parseVars, mainVars, host, k, ops, shown, pc>>

\* errCount = errCount + 1, the write of errCount; then return
IncWrite(w) ==
    /\ wpc[w] = "inc_write"
    /\ errCount' = tmp[w] + 1
    /\ wpc' = [wpc EXCEPT ![w] = "exit"]
    /\ UNCHANGED <<cfgVars, parseVars, Hosts, i, h, wg, result,
                   host, k, tmp, ops, shown, pc>>

\* a goroutine that ends without wg.Done()
Done_NoSignal(w) ==
    /\ wpc[w] = "exit"
    /\ wpc' = [wpc EXCEPT ![w] = "done"]
    /\ UNCHANGED <<cfgVars, parseVars, mainVars, host, k, tmp, ops, shown, pc>>

\* defer wg.Done()
Done(w) ==
    /\ wpc[w] = "exit"
    /\ wg' = wg - 1
    /\ wpc' = [wpc EXCEPT ![w] = "done"]
    /\ UNCHANGED <<cfgVars, parseVars, Hosts, i, h, errCount, result,
                   host, k, tmp, ops, shown, pc>>

Worker(w) ==
    \/ Dial(w) \/ TaskLoop(w) \/ Put(w) \/ RunCmd(w)
    \/ IncRead(w) \/ IncWrite(w) \/ Done(w)

Next ==
    \/ Credentials
    \/ ParseOpen \/ ParseScan \/ ParseEnd \/ ParseScanErr
    \/ AfterParse
    \/ Spawn \/ SeqWait \/ FinalWait \/ Return
    \/ \E w \in Workers : Worker(w)

Spec == Init /\ [][Next]_vars

\* the steps of the main goroutine
Main ==
    \/ Credentials
    \/ ParseOpen \/ ParseScan \/ ParseEnd \/ ParseScanErr
    \/ AfterParse
    \/ Spawn \/ SeqWait \/ FinalWait \/ Return

\* the scheduler runs every goroutine that can take a step, and every
\* Transport call returns
Fairness == WF_vars(Main) /\ \A w \in Workers : WF_vars(Worker(w))

\* Run is called with a configuration; cfg.Quiet only silences the messages
\* and decides no branch that a goroutine takes, so it is held at its default
InitLive == Init /\ ~Quiet

SpecLive == InitLive /\ [][Next]_vars /\ Fairness

(***************************************************************************)
(* Vocabulary of the properties.                                           *)
(***************************************************************************)
\* the goroutines Run starts: one per entry of the host list
Started == 1..Len(Hosts)

Active(w) == wpc[w] \notin {"idle", "done"}

\* Run went through the host loop and returned
RanHosts == pc = "done" /\ result.kind \in {"nil", "exec"}

\* a Transport call of worker w failed
Failed(w) == \E n \in 1..Len(ops[w]) : ~ops[w][n].ok

DialFailed(w) == ops[w] # <<>> /\ ops[w][1].op = "dial" /\ ~ops[w][1].ok

Connected(w) == ops[w] # <<>> /\ ops[w][1].op = "dial" /\ ops[w][1].ok

\* the Transport calls a task list asks for, in file order: per task the upload
\* if it has a File payload, then the command if it has a Command payload
RECURSIVE WalkFrom(_, _)
WalkFrom(ts, n) ==
    IF n > Len(ts) THEN <<>>
    ELSE (IF ts[n].Source # <<>> THEN <<[op |-> "put", task |-> n]>> ELSE <<>>)
         \o (IF ts[n].Cmd # <<>> THEN <<[op |-> "run", task |-> n]>> ELSE <<>>)
         \o WalkFrom(ts, n + 1)

Walk(ts) == WalkFrom(ts, 1)

\* the calls worker w made after its dial, without their outcomes
Calls(w) == [n \in 1..(Len(ops[w]) - 1) |-> [op |-> ops[w][n + 1].op, task |-> ops[w][n + 1].task]]

IsPrefix(s, t) == Len(s) <= Len(t) /\ SubSeq(t, 1, Len(s)) = s

\* worker w went through the whole task list without a failure
Completed(w) ==
    /\ wpc[w] = "done"
    /\ Connected(w)
    /\ ~Failed(w)
    /\ k[w] = Len(tasks) + 1
    /\ DryRun \/ Calls(w) = Walk(tasks)

(***************************************************************************)
(* C1.  Of a Run that got its task list and went through the host loop, in *)
(* sequential and in parallel mode and under every interleaving of the     *)
(* workers: Run returns a non-nil error if and only if a Transport call    *)
(* (dial, upload or command) of at least one worker failed, and returns    *)
(* nil exactly when every worker connected and completed the whole task    *)
(* list without failure.                                                   *)
(***************************************************************************)
C1_ErrorIffFailure ==
    RanHosts =>
        /\ result.kind = "exec" <=> \E w \in Started : Failed(w)
        /\ result.kind = "nil" <=> \A w \in Started : Completed(w)

\* a parallel Run of two hosts returned an error: one worker failed
\* and the other went through a non-empty task list
C1_Witness ==
    /\ RanHosts
    /\ Parallel
    /\ ~DryRun
    /\ result.kind = "exec"
    /\ tasks # <<>>
    /\ \E w, v \in Started : Failed(w) /\ Completed(v)

(***************************************************************************)
(* C2.  The count Run reports equals the number of workers that recorded a *)
(* failure: no increment of errCount is lost.                              *)
(***************************************************************************)
C2_NoLostIncrement ==
    RanHosts => result.count = Cardinality({w \in Started : Failed(w)})

(***************************************************************************)
(* C3.  In sequential mode a worker is started, and makes a Transport      *)
(* call, only when every worker before it in the list has finished; at     *)
(* most one worker is active; the worker of the w-th entry works on the    *)
(* w-th host.                                                              *)
(***************************************************************************)
C3_SequentialOrder ==
    ~Parallel =>
        /\ \A w \in Workers : wpc[w] # "idle" => \A v \in 1..(w - 1) : wpc[v] = "done"
        /\ \A w \in Workers : ops[w] # <<>> => \A v \in 1..(w - 1) : wpc[v] = "done"
        /\ Cardinality({w \in Workers : Active(w)}) <= 1
        /\ \A w \in Workers : \A n \in 1..Len(ops[w]) : ops[w][n].host = Hosts[w]

\* sequential mode: the second worker makes a call after the first one made
\* its calls and finished
C3_Witness ==
    /\ ~Parallel
    /\ Len(Hosts) >= 2
    /\ Len(ops[1]) >= 2
    /\ wpc[1] = "done"
    /\ Active(2)
    /\ Len(ops[2]) >= 2

(***************************************************************************)
(* C4.  Fail-fast per host: a failed upload or command is the last         *)
(* Transport call its worker makes, and the failure leaves the other       *)
(* workers alone: each worker of a finished Run either made every call of  *)
(* the task list or stopped at a failure of its own.                       *)
(***************************************************************************)
C4_FailFastPerHost ==
    /\ \A w \in Workers : \A n \in 1..Len(ops[w]) :
          ~ops[w][n].ok => n = Len(ops[w])
    /\ \A w \in Workers :
          Failed(w) => wpc[w] \in {"inc_read", "inc_write", "exit", "done"}
    /\ RanHosts /\ ~DryRun =>
          \A w \in Started : Failed(w) \/ Calls(w) = Walk(tasks)

\* a finished Run: the upload of the first task failed on one worker, which
\* made no further call, and another worker made every call of a list of two
\* tasks
C4_Witness ==
    /\ RanHosts
    /\ Len(tasks) = 2
    /\ \E w, v \in Started :
          /\ Len(ops[w]) = 2
          /\ ops[w][2].op = "put"
          /\ ~ops[w][2].ok
          /\ Completed(v)
          /\ Len(ops[v]) = 4

(***************************************************************************)
(* C5.  A failed dial is recorded as a failure of the run, none of the     *)
(* tasks of that worker is attempted or announced, and the run goes on:    *)
(* in sequential and in parallel mode every other worker still dials and   *)
(* makes the calls of the task list up to a failure of its own.            *)
(***************************************************************************)
C5_DialFailureIsolated ==
    /\ \A w \in Workers : DialFailed(w) => Len(ops[w]) = 1 /\ shown[w] = <<>> /\ k[w] = 0
    /\ RanHosts =>
          /\ (\E w \in Started : DialFailed(w)) => result.kind = "exec"
          /\ \A w \in Started :
                /\ ops[w] # <<>>
                /\ ops[w][1].op = "dial"
                /\ \A n \in 2..Len(ops[w]) : ops[w][n].op # "dial"
                /\ Connected(w) /\ ~DryRun => Failed(w) \/ Calls(w) = Walk(tasks)

\* a finished Run: the dial of the first host failed, the second host was
\* dialed and got an upload and a command
C5_Witness ==
    /\ RanHosts
    /\ Len(Hosts) >= 2
    /\ DialFailed(1)
    /\ Completed(2)
    /\ Len(ops[2]) >= 3

(***************************************************************************)
(* C6.  The Transport calls a worker makes after its dial are a prefix of  *)
(* the walk of the task list in file order (per task the upload if there   *)
(* is a File payload, then the command if there is a Command payload); for *)
(* a task with both, the command comes right after the upload of the same  *)
(* task, and only after that upload succeeded.                             *)
(***************************************************************************)
C6_CallsInFileOrder ==
    \A w \in Workers :
        /\ IsPrefix(Calls(w), Walk(tasks))
        /\ \A n \in 1..Len(ops[w]) :
              (ops[w][n].op = "run" /\ tasks[ops[w][n].task].Source # <<>>) =>
                  /\ n > 1
                  /\ ops[w][n - 1].op = "put"
                  /\ ops[w][n - 1].task = ops[w][n].task
                  /\ ops[w][n - 1].ok

\* a worker uploaded the file of a RUN SCRIPT task and then ran its command
C6_Witness ==
    \E w \in Workers : \E n \in 2..Len(ops[w]) :
        /\ ops[w][n].op = "run"
        /\ ops[w][n - 1].op = "put"
        /\ ops[w][n - 1].task = ops[w][n].task
        /\ n > 3

(***************************************************************************)
(* C7.  On dry-run no Transport operation (dial, Session.run, Session.put) *)
(* is invoked for any host.                                                *)
(***************************************************************************)
C7_DryRunNoTransport ==
    DryRun => \A w \in Workers : ops[w] = <<>>

\* the indices of the task list, in file order
AllTasks == [n \in 1..Len(tasks) |-> n]

(***************************************************************************)
(* C7, amended.  On dry-run no Session.run and no Session.put is invoked   *)
(* for any host, but every host is still dialed, once, and a failed dial   *)
(* counts as a failure of the run; for every host whose dial succeeds,     *)
(* every task is announced, in file order, unless the run is quiet.        *)
(***************************************************************************)
C7_DryRunDialsOnly ==
    DryRun =>
        /\ \A w \in Workers : \A n \in 1..Len(ops[w]) : n = 1 /\ ops[w][n].op = "dial"
        /\ \A w \in Workers : IsPrefix(shown[w], AllTasks)
        /\ RanHosts =>
              \A w \in Started :
                  /\ Len(ops[w]) = 1
                  /\ shown[w] = IF Connected(w) /\ ~Quiet THEN AllTasks ELSE <<>>
                  /\ DialFailed(w) => result.kind = "exec"

\* a finished dry run over two tasks: one host was dialed and had both tasks
\* announced, the dial of the other failed
C7_Witness ==
    /\ DryRun
    /\ RanHosts
    /\ Len(tasks) = 2
    /\ \E w, v \in Started :
          /\ Connected(w)
          /\ shown[w] = <<1, 2>>
          /\ DialFailed(v)

\* parallel mode: when Run reads errCount, and when it has returned, no worker
\* is running and every worker that was started has finished
AllFinishedAtReturn ==
    Parallel /\ pc \in {"check", "done"} =>
        /\ \A w \in Workers : ~Active(w)
        /\ result.kind \in {"nil", "exec"} \/ pc = "check" =>
              \A w \in Started : wpc[w] = "done"

\* parallel mode: a step taken after Run returned makes no Transport call and
\* moves no worker
QuietAfterReturn ==
    Parallel /\ pc = "done" => ops' = ops /\ wpc' = wpc

(***************************************************************************)
(* C8.  In parallel mode Run reads errCount and returns only after every   *)
(* worker has finished: from then on no worker is running, and no          *)
(* Transport call is made once Run has returned.                           *)
(***************************************************************************)
C8_FinalizeAfterWorkers == [] AllFinishedAtReturn /\ [][QuietAfterReturn]_vars

\* a parallel Run over two hosts has returned; both workers made calls
C8_Witness ==
    /\ Parallel
    /\ RanHosts
    /\ Len(Hosts) >= 2
    /\ \A w \in Started : wpc[w] = "done" /\ Len(ops[w]) >= 2

(***************************************************************************)
(* C9.  If Parse returns an error, Run returns an error and there is no    *)
(* network activity: no worker is started and no Transport call is made,   *)
(* also when Parse returned tasks along with the error.                    *)
(***************************************************************************)
C9_ParseErrorNoNetwork ==
    perr # NoErr =>
        /\ \A w \in Workers : wpc[w] = "idle" /\ ops[w] = <<>>
        /\ wg = 0
        /\ pc = "done" => result.kind = "parse"

\* Run returned the parse error of a file whose first line gave a task
C9_Witness ==
    /\ pc = "done"
    /\ result.kind = "parse"
    /\ perr.kind = "line"
    /\ tasks # <<>>
    /\ Hosts # <<>>

\* a line that begins with #
CommentLine(l) == l # <<>> /\ l[1] = "#"

\* the trimmed texts of those of the first n lines that are not comments
TaskLines(n) ==
    SelectSeq([j \in 1..n |-> TrimSpace(input[j])], LAMBDA l : ~CommentLine(l))

\* the instruction texts of the tasks Parse holds
TaskTexts == [n \in 1..Len(tasks) |-> tasks[n].Task]

\* Parse returned the error of a line
LineRejected == perr.kind \in {"line", "putfields", "mode"}

(***************************************************************************)
(* C10.  Parse stops at the first malformed line: the tasks returned with  *)
(* the error are the tasks of the lines before the offending line, one per *)
(* line that is not a comment, in file order; no later line gives a task;  *)
(* for an unrecognized line the error quotes the trimmed line, and the     *)
(* PUT errors name the number of the line.  While no line was rejected,    *)
(* the tasks are those of all the lines scanned.                           *)
(***************************************************************************)
C10_StopsAtFirstBadLine ==
    /\ pc = "parsed" /\ LineRejected =>
          /\ lc \in 1..Len(input)
          /\ TaskTexts = TaskLines(lc - 1)
          /\ perr.kind = "line" => perr.line = TrimSpace(input[lc])
          /\ perr.kind \in {"putfields", "mode"} => perr.lc = lc
    /\ pc \in {"scan", "parsed"} /\ perr \in {NoErr, ErrScan} => TaskTexts = TaskLines(lc)
    /\ pc = "parsed" /\ perr = NoErr => lc = Len(input)

\* Parse returned at an unrecognized second line, with the task of the first
\* line and without the task of the third
C10_Witness ==
    /\ pc = "parsed"
    /\ perr.kind = "line"
    /\ perr.line = LOther
    /\ lc = 2
    /\ Len(input) = 3
    /\ input[3] = LPut
    /\ Len(tasks) = 1

(***************************************************************************)
(* Vocabulary of the properties of single lines.                           *)
(***************************************************************************)
\* the step of Parse that scans the next line
ScanStep == pc = "scan" /\ lc' = lc + 1

\* the line that step scans, trimmed
ScannedLine == TrimSpace(input[lc'])

\* that step returns no error and appends exactly one task
OneTaskAdded ==
    /\ perr' = NoErr
    /\ pc' = "scan"
    /\ Len(tasks') = Len(tasks) + 1
    /\ SubSeq(tasks', 1, Len(tasks)) = tasks

\* the task appended
AddedTask == tasks'[Len(tasks')]

KwRun == <<"R", "U", "N", " ">>
KwCmd == <<"R", "U", "N", " ", "C", "M", "D", " ">>
KwScript == <<"R", "U", "N", " ", "S", "C", "R", "I", "P", "T", " ">>
KwPut == <<"P", "U", "T">>

\* RUN <text>, neither RUN CMD nor RUN SCRIPT
CurrentRun(l) == HasPrefix(l, KwRun) /\ ~HasPrefix(l, KwCmd) /\ ~HasPrefix(l, KwScript)

\* the maximal runs of characters that are not whitespace
RECURSIVE FieldsFrom(_, _)
FieldsFrom(s, cur) ==
    IF s = <<>> THEN (IF cur = <<>> THEN <<>> ELSE <<cur>>)
    ELSE IF IsSpace(Head(s))
         THEN (IF cur = <<>> THEN <<>> ELSE <<cur>>) \o FieldsFrom(Tail(s), <<>>)
    ELSE FieldsFrom(Tail(s), Append(cur, Head(s)))

Fields(s) == FieldsFrom(s, <<>>)

\* s without leading and trailing whitespace, every run of whitespace inside
\* made one space
Collapse(s) == Join(Fields(s))

PutLine(l) == Fields(l) # <<>> /\ Fields(l)[1] = KwPut

\* a token that reads as an octal number
OctalToken(tok) == tok # <<>> /\ \A n \in 1..Len(tok) : tok[n] \in OctalDigits

\* that step returns the error e, appends nothing and ends the scan
HaltsWith(e) ==
    /\ perr' = e
    /\ tasks' = tasks
    /\ pc' = "parsed"

(***************************************************************************)
(* C12.  Every line that starts with PUT and does not have exactly four    *)
(* whitespace-separated fields, or whose mode token is not octal, yields   *)
(* an error that names the number of the line (and the token, for a bad    *)
(* mode) and ends the parse: no task of that line is returned.             *)
(***************************************************************************)
C12_PutErrorNamesLine ==
    [][ScanStep /\ PutLine(ScannedLine) =>
          LET f == Fields(ScannedLine)
          IN  /\ Len(f) # 4 => HaltsWith(ErrPutFields(lc'))
              /\ Len(f) = 4 /\ ~OctalToken(f[4]) => HaltsWith(ErrMode(lc', f[4]))]_vars

\* the path of a RUN SCRIPT line: the text after the keywords
ScriptPath(l) == TrimSpace(Drop(l, Len(KwScript)))

\* "<dest>; rm <dest>"
RunAndRemove(dest) == dest \o <<";", " ", "r", "m", " ">> \o dest

\* a name under the temporary directory
UnderTmpDir(dest) == HasPrefix(dest, TmpDir) /\ Len(dest) > Len(TmpDir)

(***************************************************************************)
(* C13.  Every line RUN SCRIPT <path> yields exactly one task with both    *)
(* payloads: the file has the source <path>, a generated destination under *)
(* the temporary directory and the mode 0700, and the command is           *)
(* "<destination>; rm <destination>" for that destination; the source of   *)
(* the file is never empty.                                                *)
(***************************************************************************)
C13_ScriptTask ==
    [][ScanStep /\ HasPrefix(ScannedLine, KwScript) =>
          /\ OneTaskAdded
          /\ AddedTask.Source = ScriptPath(ScannedLine)
          /\ AddedTask.Source # <<>>
          /\ UnderTmpDir(AddedTask.Destination)
          /\ AddedTask.Mode = ScriptMode
          /\ AddedTask.Cmd = RunAndRemove(AddedTask.Destination)]_vars

\* a task carries a command
HasCommand(t) == t.Cmd # <<>>

\* a task carries a file
HasFile(t) == t.Source # <<>>

(***************************************************************************)
(* C14.  Every task Parse returns has a command or a file, and has both    *)
(* only when it comes from a RUN SCRIPT line; no task has neither.         *)
(***************************************************************************)
C14_SomePayload ==
    \A n \in 1..Len(tasks) :
        /\ HasCommand(tasks[n]) \/ HasFile(tasks[n])
        /\ HasCommand(tasks[n]) /\ HasFile(tasks[n]) => HasPrefix(tasks[n].Task, KwScript)

\* PUT <src> <dst> <mode>: four fields with one space between them, PUT
\* first, and a mode of three or four octal digits
ValidPut(l) ==
    LET f == Fields(l)
    IN  /\ Len(f) = 4
        /\ f[1] = KwPut
        /\ l = Join(f)
        /\ Len(f[4]) \in {3, 4}
        /\ OctalToken(f[4])

\* the number a string of octal digits denotes, read from the left
RECURSIVE OctalFrom(_, _)
OctalFrom(tok, acc) ==
    IF tok = <<>> THEN acc ELSE OctalFrom(Tail(tok), 8 * acc + DigitVal(Head(tok)))

OctalValue(tok) == OctalFrom(tok, 0)

HasPortSuffix(hs) ==
    \E n \in 1..Len(hs) - 1 : hs[n] = ":" /\ AllDigits(Drop(hs, n))

\* the configured port, 22 when none is configured
PortOrDefault == IF Port = <<>> THEN <<"2", "2">> ELSE Port

\* out is the list in, each host without a port suffix given the port
Normalized(in, out) ==
    /\ Len(out) = Len(in)
    /\ \A n \in 1..Len(in) :
          out[n] = IF HasPortSuffix(in[n]) THEN in[n]
                   ELSE in[n] \o <<":">> \o PortOrDefault

(***************************************************************************)
(* C16.  fixUpHosts returns a list of the same length and order as its     *)
(* input, in which a host that carries a ':'-delimited port suffix is      *)
(* unchanged and every other host h is h, ':' and the configured port (22  *)
(* when none is configured); normalizing a normalized list changes         *)
(* nothing.                                                                *)
(***************************************************************************)
C16_HostsNormalized ==
    [][/\ pc = "fix" /\ pc' = "fixed" => Normalized(Hosts, Hosts')
       /\ pc = "fixed" /\ pc' = "refixed" => Hosts' = Hosts]_vars

\* the task of a RUN SCRIPT line
ScriptTask(t) == HasPrefix(t.Task, KwScript)

(***************************************************************************)
(* C17.  Within one Parse call the destinations generated for distinct RUN *)
(* SCRIPT lines are pairwise distinct: no two SCRIPT tasks share a         *)
(* destination.                                                            *)
(***************************************************************************)
C17_DistinctDestinations ==
    \A m, n \in 1..Len(tasks) :
        m # n /\ ScriptTask(tasks[m]) /\ ScriptTask(tasks[n]) =>
            tasks[m].Destination # tasks[n].Destination

\* the dials among the Transport calls of worker w
Dials(w) == SelectSeq(ops[w], LAMBDA o : o.op = "dial")

(***************************************************************************)
(* C18.  In parallel mode every host of the normalized list is dialed      *)
(* exactly once per run: the worker dispatched for hosts[i] connects to    *)
(* hosts[i] and makes its calls against it, no host is skipped, and no     *)
(* host is dialed by two workers or dialed again after a failure.          *)
(***************************************************************************)
C18_EachHostDialedOnce ==
    Parallel =>
        /\ \A w \in Workers :
              /\ Len(Dials(w)) <= 1
              /\ \A n \in 1..Len(ops[w]) : ops[w][n].host = Hosts[w]
        /\ RanHosts => \A w \in Started : Len(Dials(w)) = 1

\* the counter of the WaitGroup is the number of goroutines that were started
\* and have not signalled
Registered == wg = Cardinality({w \in Workers : Active(w)})

\* a goroutine that signalled takes no further step
SignalsOnce == \A w \in Workers : wpc[w] = "done" => wpc'[w] = "done"

(***************************************************************************)
(* C19.  If every Transport call returns, Run returns, in sequential and   *)
(* in parallel mode, for every host list (the empty one included) and      *)
(* every task list: the wait on the WaitGroup never blocks for ever,       *)
(* because each worker is registered when it is started and signals        *)
(* completion exactly once on every exit path (connection failure, task    *)
(* failure, dry run, success).                                             *)
(***************************************************************************)
C19_RunReturns ==
    /\ <>(pc = "done")
    /\ [](Registered /\ (pc = "done" /\ RanHosts => \A w \in Started : wpc[w] = "done"))
    /\ [][SignalsOnce]_vars

\* a parallel Run returned after one worker failed to connect and another
\* failed at a task: both signalled, and the counter is back at zero
C19_Witness ==
    /\ pc = "done"
    /\ Parallel
    /\ wg = 0
    /\ \E v, w \in Started :
          /\ DialFailed(v)
          /\ Connected(w) /\ Failed(w)
          /\ wpc[v] = "done" /\ wpc[w] = "done"

\* a line of nothing but whitespace
BlankLine(l) == \A n \in 1..Len(l) : IsSpace(l[n])

(***************************************************************************)
(* C20.  A blank or whitespace-only line is not skipped: it matches none   *)
(* of the RUN, PUT and comment patterns, so Parse stops at it with the     *)
(* error of an unrecognized line and returns only the tasks of the lines   *)
(* before it; the lines after it are never parsed.                         *)
(***************************************************************************)
C20_BlankLineHalts ==
    \A j \in 1..lc :
        BlankLine(input[j]) =>
            /\ j = lc
            /\ pc = "parsed"
            /\ perr = ErrLine(<<>>)
            /\ TaskTexts = TaskLines(j - 1)

\* Parse returned at a whitespace-only second line, with the task of the
\* first line and without the task of the third
C20_Witness ==
    /\ pc = "parsed"
    /\ input = <<LRun, LSpaces, LPut>>
    /\ lc = 2
    /\ perr = ErrLine(<<>>)
    /\ TaskTexts = <<LRun>>

====
